---- MODULE Spec2Model ----
(***************************************************************************)
(* The persistent iteration store of westpa_colmena/io.py: WestpaH5File.   *)
(*                                                                         *)
(* The HDF5 file is modelled by its contents: the /summary table, the      *)
(* /iterations groups, the /ibstates and /tstates index tables with their  *)
(* subgroups, and the /bin_topologies index and payload tables.  A dataset *)
(* that does not exist yet is the empty sequence (every dataset is created *)
(* with one row, so an existing dataset never has length 0).  Tables are   *)
(* TLA+ sequences; Row(t, i) reads the row python addresses as t[i].       *)
(*                                                                         *)
(* One append call is a sequence of steps, one per writer it calls, in the *)
(* order Steps gives; the call either runs every step to the end or stops  *)
(* at a step that raises.  Weights are integers in tenths (6 is 0.6).      *)
(***************************************************************************)
EXTENDS Integers, Sequences, FiniteSets, TLC

VARIABLES
    summary,     \* /summary: sequence of summary rows
    iterations,  \* /iterations: group name -> the group's n_iter attribute
    ibIndex,     \* /ibstates/index: sequence of index rows
    ibGroups,    \* /ibstates/<name>: subgroup name -> its datasets
    tsIndex,     \* /tstates/index: sequence of index rows
    tsGroups,    \* /tstates/<name>: subgroup name -> its datasets
    binIndex,    \* /bin_topologies/index: sequence of index rows
    pickles,     \* /bin_topologies/pickles: [width, rows]
    fileOpen,    \* an h5py.File handle on the store is open
    pc,          \* 0: no call running; k > 0: the running append is at Steps[k]
    call,        \* the arguments of the latest append call
    op,          \* the latest operation invoked: "create" or "append"
    outcome,     \* how it ended: "ok", "running", "ValueError", "IOError"
    ncalls,      \* number of append calls made
    blobs,       \* history: the blobs handed to append_bin_mapper since creation
    dropped,     \* history: the iteration groups the latest creation discarded
    completed,   \* history: appends with n_iter # 0 that returned, since creation
    clean        \* history: no append has raised since creation

vars == <<summary, iterations, ibIndex, ibGroups, tsIndex, tsGroups, binIndex,
          pickles, fileOpen, pc, call, op, outcome, ncalls, blobs, dropped,
          completed, clean>>

store == <<summary, iterations, ibIndex, ibGroups, tsIndex, tsGroups, binIndex,
           pickles>>

(***************************************************************************)
(* Bounds of the model.                                                    *)
(***************************************************************************)
MaxAppends == 2
MaxIter == 2
MaxStates == 2
MaxSims == 2
MaxBins == 2

Weights == {4, 6}

(***************************************************************************)
(* Program constants.                                                      *)
(***************************************************************************)
WestIterPrec == 8

Null == "null"

(***************************************************************************)
(* Python and h5py primitives.                                             *)
(***************************************************************************)
RECURSIVE Digits(_)
Digits(n) == IF n < 10 THEN <<n>> ELSE Digits(n \div 10) \o <<n % 10>>

\* a slip: the iteration number formatted without the zero padding
ZeroPadNone(d, prec) == d

ZeroPad(d, prec) ==
    IF Len(d) >= prec THEN d ELSE [i \in 1..(prec - Len(d)) |-> 0] \o d

IterGroupName(n, prec) == [prefix |-> "iter_", digits |-> ZeroPad(Digits(n), prec)]

Str(n) == Digits(n)

RECURSIVE SumWeights(_)
SumWeights(sims) ==
    IF sims = <<>> THEN 0 ELSE Head(sims).weight + SumWeights(Tail(sims))

RECURSIVE PyMin(_)
PyMin(xs) ==
    IF Len(xs) = 1 THEN xs[1]
    ELSE LET m == PyMin(Tail(xs)) IN IF m < xs[1] THEN m ELSE xs[1]

RECURSIVE PyMax(_)
PyMax(xs) ==
    IF Len(xs) = 1 THEN xs[1]
    ELSE LET m == PyMax(Tail(xs)) IN IF m > xs[1] THEN m ELSE xs[1]

\* dataset.resize((n,)): rows beyond n are dropped, new rows are fill values
Resize(table, n, fill) ==
    [i \in 1..n |-> IF i <= Len(table) THEN table[i] ELSE fill]

\* the 0-based position python's table[i] addresses (a negative i counts from the end)
PyIndex(table, i) == IF i < 0 THEN i + Len(table) ELSE i

Row(table, i) == table[PyIndex(table, i) + 1]

WriteRow(table, i, row) == [table EXCEPT ![PyIndex(table, i) + 1] = row]

\* group[name] = value, group.create_group(name), group.attrs[...] = value
Put(f, k, v) == [x \in DOMAIN f \cup {k} |-> IF x = k THEN v ELSE f[x]]

NoEntries == [x \in {} |-> 0]

(***************************************************************************)
(* Record layouts (the dtypes).                                            *)
(***************************************************************************)
ZeroSummaryRow ==
    [n_particles |-> 0, norm |-> 0, min_bin_prob |-> 0, max_bin_prob |-> 0,
     min_seg_prob |-> 0, max_seg_prob |-> 0, cputime |-> 0, walltime |-> 0,
     binhash |-> 0]

ZeroIbRow == [iter_valid |-> 0, n_bstates |-> 0, group_ref |-> Null]

ZeroTsRow == [iter_valid |-> 0, n_states |-> 0, group_ref |-> Null]

ZeroBinRow == [hash |-> 0, pickle_len |-> 0]

(***************************************************************************)
(* The inputs of append.                                                   *)
(***************************************************************************)
\* a binning scheme of serialized length L: its hash and its bytes
Binner(L) == [hash |-> L, pickle |-> [i \in 1..L |-> L]]

Binners == {Binner(1), Binner(2)}

Sim(w, n, b) ==
    [weight |-> w, iteration_id |-> n, binner_hash |-> b.hash,
     binner_pickle |-> b.pickle]

\* the replicas of one iteration share the iteration number and the binning scheme
Replicas(ws, n, b) == [i \in 1..Len(ws) |-> Sim(ws[i], n, b)]

BasisStates(k) ==
    [i \in 1..k |->
        [simulation_id |-> i, weight |-> 10, auxref |-> "", parent_pcoord |-> <<i>>]]

TargetStates(k) == [i \in 1..k |-> [label |-> "target", pcoord |-> <<i>>]]

CallArgs(ni, bs, kb, kt) ==
    [next_iteration |-> ni, binned_sims |-> bs, basis_states |-> BasisStates(kb),
     target_states |-> TargetStates(kt)]

\* the calls of Spec: no replicas or two, in no bin or all in one bin, with
\* no or one basis state, no or one target state
CallWeights == {<<>>, <<6, 4>>}

StateCounts == {0, 1}

CallInputs ==
    UNION {{CallArgs(Replicas(ws, n, b), bs, kb, kt) :
               bs \in {<<>>, <<Replicas(ws, n, b)>>},
               kb \in StateCounts, kt \in StateCounts} :
              ws \in CallWeights, n \in 0..MaxIter, b \in Binners}

\* the replicas of sims that the assignment f puts into bin b, in order
PickSeq(sims, f, b) ==
    LET F[k \in 0..Len(sims)] ==
            IF k = 0 THEN <<>>
            ELSE IF f[k] = b THEN Append(F[k - 1], sims[k]) ELSE F[k - 1]
    IN F[Len(sims)]

\* the replicas partitioned into at most MaxBins bins, or no bins at all
BinPartitions(sims) ==
    {<<>>} \cup
    UNION {{[b \in 1..nb |-> PickSeq(sims, f, b)] : f \in [1..Len(sims) -> 1..nb]} :
              nb \in 1..MaxBins}

\* the calls of SpecFirstAppend: up to MaxSims replicas of any weights, in any
\* partition, with up to MaxStates basis states and target states
WeightLists == UNION {[1..k -> Weights] : k \in 1..MaxSims}

FirstAppendInputs ==
    UNION {{CallArgs(Replicas(ws, n, b), bs, kb, kt) :
               bs \in BinPartitions(Replicas(ws, n, b)),
               kb \in 0..MaxStates, kt \in 0..MaxStates} :
              ws \in WeightLists, n \in 0..1, b \in Binners}

NIter == call.next_iteration[1].iteration_id

NoCall ==
    [next_iteration |-> <<>>, binned_sims |-> <<>>, basis_states |-> <<>>,
     target_states |-> <<>>]

(***************************************************************************)
(* __init__: the file is created with mode 'w'.                            *)
(***************************************************************************)
Init ==
    /\ summary = <<ZeroSummaryRow>>
    /\ iterations = NoEntries
    /\ ibIndex = <<>>
    /\ ibGroups = NoEntries
    /\ tsIndex = <<>>
    /\ tsGroups = NoEntries
    /\ binIndex = <<>>
    /\ pickles = [width |-> 0, rows |-> <<>>]
    /\ fileOpen = FALSE
    /\ pc = 0
    /\ call = NoCall
    /\ op = "create"
    /\ outcome = "ok"
    /\ ncalls = 0
    /\ blobs = <<>>
    /\ dropped = 0
    /\ completed = 0
    /\ clean = TRUE

(***************************************************************************)
(* append_summary.                                                         *)
(***************************************************************************)
BinWeights(binned_sims) == [b \in 1..Len(binned_sims) |-> SumWeights(binned_sims[b])]

SimWeights(next_iteration) == [i \in 1..Len(next_iteration) |-> next_iteration[i].weight]

\* a slip: the per-bin extremes taken over the replicas instead of the bin sums
SummaryRowBinsAsSegs(next_iteration, binned_sims) ==
    [n_particles  |-> Len(next_iteration),
     norm         |-> SumWeights(next_iteration),
     min_seg_prob |-> PyMin(SimWeights(next_iteration)),
     max_seg_prob |-> PyMax(SimWeights(next_iteration)),
     min_bin_prob |-> PyMin(SimWeights(next_iteration)),
     max_bin_prob |-> PyMax(SimWeights(next_iteration)),
     cputime      |-> 0,
     walltime     |-> 0,
     binhash      |-> next_iteration[1].binner_hash]

SummaryRow(next_iteration, binned_sims) ==
    [n_particles  |-> Len(next_iteration),
     norm         |-> SumWeights(next_iteration),
     min_seg_prob |-> PyMin(SimWeights(next_iteration)),
     max_seg_prob |-> PyMax(SimWeights(next_iteration)),
     min_bin_prob |-> PyMin(BinWeights(binned_sims)),
     max_bin_prob |-> PyMax(BinWeights(binned_sims)),
     cputime      |-> 0,
     walltime     |-> 0,
     binhash      |-> next_iteration[1].binner_hash]

\* a slip: the table resized to n_iter + 1 rows whatever its length
SummaryLenExact(len, n_iter) == n_iter + 1

\* a change of design: the table grown whenever it has fewer than n_iter + 1 rows
SummaryLenAtLeastNext(len, n_iter) == IF len < n_iter + 1 THEN n_iter + 1 ELSE len

\* the length of the summary table after "resize if necessary"
SummaryLen(len, n_iter) == IF len < n_iter THEN n_iter + 1 ELSE len

\* a slip: the row of iteration n_iter written at index n_iter
SummaryIndexOffByOne(n_iter) == n_iter

\* the index the row of iteration n_iter is written at
SummaryIndex(n_iter) == n_iter - 1

SummaryWrite(table, n_iter, row) ==
    WriteRow(Resize(table, SummaryLen(Len(table), n_iter), ZeroSummaryRow),
             SummaryIndex(n_iter), row)

(***************************************************************************)
(* append_ibstates.                                                        *)
(***************************************************************************)
\* a slip: an existing index not resized, so that the new row replaces the last
GrowIndexKeep(index, fill) == IF index # <<>> THEN index ELSE <<fill>>

\* the index dataset grown by one row, or created with one row
GrowIndex(index, fill) ==
    IF index # <<>> THEN Resize(index, Len(index) + 1, fill) ELSE <<fill>>

\* a slip: the set id stored where the number of states belongs
IbRowSetId(n_iter, basis_states, set_id) ==
    [iter_valid |-> n_iter, n_bstates |-> set_id, group_ref |-> Str(set_id)]

\* a change of design: no reference for an empty list, as append_tstates has it
IbRowNullWhenEmpty(n_iter, basis_states, set_id) ==
    [iter_valid |-> n_iter,
     n_bstates  |-> Len(basis_states),
     group_ref  |-> IF basis_states # <<>> THEN Str(set_id) ELSE Null]

IbRow(n_iter, basis_states, set_id) ==
    [iter_valid |-> n_iter, n_bstates |-> Len(basis_states), group_ref |-> Str(set_id)]

BstateTable(basis_states) ==
    [i \in 1..Len(basis_states) |->
        [label       |-> Str(basis_states[i].simulation_id),
         probability |-> basis_states[i].weight,
         auxref      |-> basis_states[i].auxref]]

\* the datasets of the subgroup created for one basis-state list
IbGroup(basis_states) ==
    IF basis_states # <<>>
    THEN [bstate_index  |-> BstateTable(basis_states),
          bstate_pcoord |-> [i \in 1..Len(basis_states) |-> basis_states[i].parent_pcoord]]
    ELSE NoEntries

(***************************************************************************)
(* append_tstates.                                                         *)
(***************************************************************************)
\* a slip: the reference stored for an empty list too, for which no group exists
TsRowAlwaysRef(n_iter, target_states, set_id) ==
    [iter_valid |-> n_iter, n_states |-> Len(target_states), group_ref |-> Str(set_id)]

TsRow(n_iter, target_states, set_id) ==
    [iter_valid |-> n_iter,
     n_states   |-> Len(target_states),
     group_ref  |-> IF target_states # <<>> THEN Str(set_id) ELSE Null]

TsGroup(target_states) ==
    [index  |-> [i \in 1..Len(target_states) |-> [label |-> target_states[i].label]],
     pcoord |-> [i \in 1..Len(target_states) |-> target_states[i].pcoord]]

\* a slip: the subgroup created for every list, as append_ibstates does
TsGroupsAlways(groups, target_states, set_id) ==
    Put(groups, Str(set_id), TsGroup(target_states))

\* /tstates subgroups after the append: a subgroup only for a non-empty list
TsGroupsAfter(groups, target_states, set_id) ==
    IF target_states # <<>>
    THEN Put(groups, Str(set_id), TsGroup(target_states))
    ELSE groups

(***************************************************************************)
(* append_bin_mapper.                                                      *)
(***************************************************************************)
\* a slip: the width set to the new blob's length without the max
NewHsizeOfBlob(width, len) == len

NewHsize(width, len) == IF width > len THEN width ELSE len

\* pickle_ds.resize((n, w)): every row cut or zero-extended to width w
ResizePickles(p, n, w) ==
    [width |-> w,
     rows  |-> [i \in 1..n |->
                  [j \in 1..w |->
                      IF i <= Len(p.rows) /\ j <= p.width THEN p.rows[i][j] ELSE 0]]]

\* the payload table grown by one row, or created with one row of the blob's length
GrowPickles(p, binx, pickle_data) ==
    IF binx # <<>> /\ p.rows # <<>>
    THEN ResizePickles(p, Len(p.rows) + 1, NewHsize(p.width, Len(pickle_data)))
    ELSE [width |-> Len(pickle_data), rows |-> <<[j \in 1..Len(pickle_data) |-> 0]>>]

\* pickle_ds[ind, :len(pickle_data)] = pickle_data
WritePickle(p, ind, pickle_data) ==
    [p EXCEPT !.rows[ind + 1] =
        [j \in 1..p.width |-> IF j <= Len(pickle_data) THEN pickle_data[j] ELSE @[j]]]

BinRow(hashval, pickle_data) == [hash |-> hashval, pickle_len |-> Len(pickle_data)]

(***************************************************************************)
(* append: the writers one call runs, in order.                            *)
(***************************************************************************)
\* a change of the gate: the state writers skipped for iteration 1 as well
StepsAfterFirst(n_iter) ==
    IF n_iter > 1
    THEN <<"summary", "ibstates", "tstates", "bin_mapper", "iter_group">>
    ELSE <<"summary", "iter_group">>

\* a slip: the iteration group created before the writers run
StepsGroupFirst(n_iter) ==
    IF n_iter # 0
    THEN <<"iter_group", "summary", "ibstates", "tstates", "bin_mapper">>
    ELSE <<"iter_group", "summary">>

\* a slip: the target states written before the basis states
StepsTargetsFirst(n_iter) ==
    IF n_iter # 0
    THEN <<"summary", "tstates", "ibstates", "bin_mapper", "iter_group">>
    ELSE <<"summary", "iter_group">>

Steps(n_iter) ==
    IF n_iter # 0
    THEN <<"summary", "ibstates", "tstates", "bin_mapper", "iter_group">>
    ELSE <<"summary", "iter_group">>

At(step) == pc > 0 /\ Steps(NIter)[pc] = step

\* the writer returns: the next writer runs, or the with block closes the file
Advance ==
    /\ pc' = IF pc = Len(Steps(NIter)) THEN 0 ELSE pc + 1
    /\ fileOpen' = (pc' # 0)
    /\ outcome' = IF pc' = 0 THEN "ok" ELSE "running"
    /\ completed' = IF pc' = 0 /\ NIter # 0 THEN completed + 1 ELSE completed
    /\ UNCHANGED <<call, op, ncalls, dropped, clean>>

\* a slip: the file opened without a with block, so an exception leaves it open
RaiseLeavesOpen(err) ==
    /\ pc' = 0
    /\ fileOpen' = fileOpen
    /\ outcome' = err
    /\ clean' = FALSE
    /\ UNCHANGED <<call, op, ncalls, dropped, completed>>

\* an exception leaves the with block, which closes the file
Raise(err) ==
    /\ pc' = 0
    /\ fileOpen' = FALSE
    /\ outcome' = err
    /\ clean' = FALSE
    /\ UNCHANGED <<call, op, ncalls, dropped, completed>>

\* a slip: the guard tests for None, which an empty list is not
RejectedIfNone(next_iteration) == FALSE

\* the guard of append: "if not next_iteration"
Rejected(next_iteration) == next_iteration = <<>>

\* a slip: the file opened with mode 'a', which keeps what it holds
CreateKeepsContents ==
    /\ pc = 0
    /\ fileOpen' = FALSE
    /\ op' = "create"
    /\ outcome' = "ok"
    /\ dropped' = 0
    /\ UNCHANGED <<store, blobs, pc, call, ncalls, completed, clean>>

Create ==
    /\ pc = 0
    /\ summary' = <<ZeroSummaryRow>>
    /\ iterations' = NoEntries
    /\ ibIndex' = <<>>
    /\ ibGroups' = NoEntries
    /\ tsIndex' = <<>>
    /\ tsGroups' = NoEntries
    /\ binIndex' = <<>>
    /\ pickles' = [width |-> 0, rows |-> <<>>]
    /\ fileOpen' = FALSE
    /\ op' = "create"
    /\ outcome' = "ok"
    /\ blobs' = <<>>
    /\ dropped' = Cardinality(DOMAIN iterations)
    /\ completed' = 0
    /\ clean' = TRUE
    /\ UNCHANGED <<pc, call, ncalls>>

AppendCall ==
    /\ pc = 0
    /\ ncalls < MaxAppends
    /\ \E c \in CallInputs : call' = c
    /\ ncalls' = ncalls + 1
    /\ op' = "append"
    /\ IF Rejected(call'.next_iteration)
       THEN /\ pc' = 0
            /\ fileOpen' = FALSE
            /\ outcome' = "ValueError"
            /\ clean' = FALSE
       ELSE /\ pc' = 1
            /\ fileOpen' = TRUE
            /\ outcome' = "running"
            /\ clean' = clean
    /\ UNCHANGED <<store, blobs, dropped, completed>>

\* a change of design: an empty bin partition written with sentinel aggregates
AppendSummarySentinel ==
    /\ At("summary")
    /\ summary' = SummaryWrite(summary, NIter,
                      IF call.binned_sims = <<>>
                      THEN [ZeroSummaryRow EXCEPT !.n_particles = Len(call.next_iteration)]
                      ELSE SummaryRow(call.next_iteration, call.binned_sims))
    /\ Advance
    /\ UNCHANGED <<iterations, ibIndex, ibGroups, tsIndex, tsGroups, binIndex,
                   pickles, blobs>>

AppendSummary ==
    /\ At("summary")
    /\ IF call.next_iteration = <<>> \/ call.binned_sims = <<>>
       THEN \* min() of an empty sequence raises ValueError before the table is touched
            /\ Raise("ValueError")
            /\ UNCHANGED summary
       ELSE /\ summary' = SummaryWrite(summary, NIter,
                             SummaryRow(call.next_iteration, call.binned_sims))
            /\ Advance
    /\ UNCHANGED <<iterations, ibIndex, ibGroups, tsIndex, tsGroups, binIndex,
                   pickles, blobs>>

AppendIbstates ==
    /\ At("ibstates")
    /\ LET index == GrowIndex(ibIndex, ZeroIbRow)
           set_id == Len(index) - 1
       IN /\ ibGroups' = Put(ibGroups, Str(set_id), IbGroup(call.basis_states))
          /\ ibIndex' = WriteRow(index, set_id, IbRow(NIter, call.basis_states, set_id))
    /\ Advance
    /\ UNCHANGED <<summary, iterations, tsIndex, tsGroups, binIndex, pickles, blobs>>

AppendTstates ==
    /\ At("tstates")
    /\ LET index == GrowIndex(tsIndex, ZeroTsRow)
           set_id == Len(index) - 1
       IN /\ tsGroups' = TsGroupsAfter(tsGroups, call.target_states, set_id)
          /\ tsIndex' = WriteRow(index, set_id, TsRow(NIter, call.target_states, set_id))
    /\ Advance
    /\ UNCHANGED <<summary, iterations, ibIndex, ibGroups, binIndex, pickles, blobs>>

WriteBinMapper ==
    LET sim == call.next_iteration[1]
        pickle_data == sim.binner_pickle
        index == GrowIndex(binIndex, ZeroBinRow)
        pickle_ds == GrowPickles(pickles, binIndex, pickle_data)
        ind == Len(index) - 1
    IN /\ binIndex' = WriteRow(index, ind, BinRow(sim.binner_hash, pickle_data))
       /\ pickles' = WritePickle(pickle_ds, ind, pickle_data)
       /\ blobs' = Append(blobs, pickle_data)

\* a change of design: a snapshot whose hash is already indexed is not stored again
AppendBinMapperDedup ==
    /\ At("bin_mapper")
    /\ IF \E i \in 1..Len(binIndex) : binIndex[i].hash = call.next_iteration[1].binner_hash
       THEN UNCHANGED <<binIndex, pickles, blobs>>
       ELSE WriteBinMapper
    /\ Advance
    /\ UNCHANGED <<summary, iterations, ibIndex, ibGroups, tsIndex, tsGroups>>

AppendBinMapper ==
    /\ At("bin_mapper")
    /\ WriteBinMapper
    /\ Advance
    /\ UNCHANGED <<summary, iterations, ibIndex, ibGroups, tsIndex, tsGroups>>

\* require_group: an existing group is reused; then its n_iter attribute is set
CreateIterGroup ==
    /\ At("iter_group")
    /\ iterations' = Put(iterations, IterGroupName(NIter, WestIterPrec), NIter)
    /\ Advance
    /\ UNCHANGED <<summary, ibIndex, ibGroups, tsIndex, tsGroups, binIndex, pickles,
                   blobs>>

\* the writer about to run fails with an I/O error before its first write
IOFail ==
    /\ pc > 0
    /\ Raise("IOError")
    /\ UNCHANGED <<store, blobs>>

Next ==
    \/ Create
    \/ AppendCall
    \/ AppendSummary
    \/ AppendIbstates
    \/ AppendTstates
    \/ AppendBinMapper
    \/ CreateIterGroup
    \/ IOFail

Spec == Init /\ [][Next]_vars

(***************************************************************************)
(* One append on a fresh store, over a wider range of replicas and bins.   *)
(***************************************************************************)
InitFirstAppend ==
    /\ summary = <<ZeroSummaryRow>>
    /\ iterations = NoEntries
    /\ ibIndex = <<>>
    /\ ibGroups = NoEntries
    /\ tsIndex = <<>>
    /\ tsGroups = NoEntries
    /\ binIndex = <<>>
    /\ pickles = [width |-> 0, rows |-> <<>>]
    /\ fileOpen = TRUE
    /\ pc = 1
    /\ call \in FirstAppendInputs
    /\ op = "append"
    /\ outcome = "running"
    /\ ncalls = 1
    /\ blobs = <<>>
    /\ dropped = 0
    /\ completed = 0
    /\ clean = TRUE

NextFirstAppend ==
    \/ AppendSummary
    \/ AppendIbstates
    \/ AppendTstates
    \/ AppendBinMapper
    \/ CreateIterGroup

SpecFirstAppend == InitFirstAppend /\ [][NextFirstAppend]_vars

(***************************************************************************)
(* Claims.                                                                 *)
(***************************************************************************)
Succeeded == op = "append" /\ pc = 0 /\ outcome = "ok"

\* C1: after a successful append whose replicas carry iteration number n >= 1,
\* the summary table has at least n rows and row n-1 (0-based; the n-th row)
\* holds exactly the aggregate computed from that call's replicas and bins,
\* whatever appends came before.
C1_SummaryRowOfIteration ==
    (Succeeded /\ NIter >= 1) =>
        /\ Len(summary) >= NIter
        /\ summary[(NIter - 1) + 1] = SummaryRow(call.next_iteration, call.binned_sims)
        /\ summary[(NIter - 1) + 1].n_particles = Len(call.next_iteration)

\* iteration 1 appended after iteration 2: row 0 is written in a 3-row table
C1_Witness ==
    /\ Succeeded
    /\ NIter = 1
    /\ ncalls = 2
    /\ Len(summary) = 3
    /\ summary[1].n_particles = 2
    /\ summary[2].n_particles = 2
    /\ Cardinality(DOMAIN iterations) = 2

\* C2: an append call with an empty replica list fails at once with the
\* ValueError that stands for EmptyIteration; no writer runs, and the summary
\* table, the state and bin-topology tables and the iteration groups stay as
\* they were.
C2_EmptyAppendRejected ==
    [][(ncalls' = ncalls + 1 /\ call'.next_iteration = <<>>) =>
          /\ outcome' = "ValueError"
          /\ pc' = 0
          /\ store' = store]_vars

\* an empty append rejected on a store that already holds an iteration
C2_Witness ==
    /\ op = "append"
    /\ outcome = "ValueError"
    /\ call.next_iteration = <<>>
    /\ Len(ibIndex) = 1
    /\ Len(summary) = 3
    /\ DOMAIN iterations # {}

\* the writer at Steps[pc] failed with an I/O error before writing anything
IOFailed == outcome' = "IOError" /\ store' = store

\* the rows a table held before a step are still its first rows
KeepsRows(old, new) == Len(new) >= Len(old) /\ SubSeq(new, 1, Len(old)) = old

\* C3: the iteration group is the last thing one append writes.  In every
\* state, also after a failure partway through an append, a group for
\* iteration n exists only if a summary row for n is written and, for n # 0,
\* the basis-state and target-state index rows of iteration n and one blob per
\* such group are written; and the step that creates a new group ends the
\* call, finding that call's summary row, basis-state row, target-state row
\* and blob already in place.
C3_GroupState ==
    \A nm \in DOMAIN iterations :
        LET n == iterations[nm] IN
        /\ n >= 1 => Len(summary) >= n /\ summary[n].n_particles > 0
        /\ n = 0 => \E i \in 1..Len(summary) : summary[i].n_particles > 0
        /\ n # 0 =>
             /\ \E i \in 1..Len(ibIndex) : ibIndex[i].iter_valid = n
             /\ \E i \in 1..Len(tsIndex) : tsIndex[i].iter_valid = n
             /\ Cardinality({m \in DOMAIN iterations : iterations[m] # 0})
                    <= Len(binIndex)

C3_GroupStep ==
    (DOMAIN iterations' \ DOMAIN iterations # {}) =>
        /\ pc > 0 /\ pc' = 0 /\ outcome' = "ok"
        /\ <<summary, ibIndex, ibGroups, tsIndex, tsGroups, binIndex, pickles>>'
             = <<summary, ibIndex, ibGroups, tsIndex, tsGroups, binIndex, pickles>>
        /\ Row(summary, NIter - 1) = SummaryRow(call.next_iteration, call.binned_sims)
        /\ NIter # 0 =>
             /\ ibIndex # <<>> /\ tsIndex # <<>> /\ binIndex # <<>>
             /\ Row(ibIndex, -1).iter_valid = NIter
             /\ Row(ibIndex, -1).n_bstates = Len(call.basis_states)
             /\ Row(tsIndex, -1).iter_valid = NIter
             /\ Row(tsIndex, -1).n_states = Len(call.target_states)
             /\ Row(binIndex, -1).hash = call.next_iteration[1].binner_hash
             /\ SubSeq(Row(pickles.rows, -1), 1, Row(binIndex, -1).pickle_len)
                    = call.next_iteration[1].binner_pickle

C3_GroupWrittenLast == [](C3_GroupState) /\ [][C3_GroupStep]_vars

\* an append failed after its target-state write: its rows are in the tables,
\* and the only group is the one of the earlier, completed append
C3_Witness ==
    /\ outcome = "IOError"
    /\ Len(tsIndex) = 2
    /\ Len(binIndex) = 1
    /\ Cardinality(DOMAIN iterations) = 1
    /\ tsIndex[2].iter_valid # tsIndex[1].iter_valid

\* C4: append_tstates with an empty target-state list adds exactly one row to
\* /tstates/index, with n_states = 0 and a null group reference, creates no
\* subgroup under /tstates, and does not raise.
C4_EmptyTargetStates ==
    [][(At("tstates") /\ call.target_states = <<>>) =>
          \/ IOFailed
          \/ /\ outcome' \in {"running", "ok"}
             /\ Len(tsIndex') = Len(tsIndex) + 1
             /\ KeepsRows(tsIndex, tsIndex')
             /\ Row(tsIndex', -1).n_states = 0
             /\ Row(tsIndex', -1).group_ref = Null
             /\ tsGroups' = tsGroups]_vars

\* an empty list appended after a non-empty one: two rows, one subgroup
C4_Witness ==
    /\ Len(tsIndex) = 2
    /\ tsIndex[1].n_states = 1
    /\ tsIndex[2].n_states = 0
    /\ tsIndex[2].group_ref = Null
    /\ DOMAIN tsGroups = {Str(0)}

\* C5: append_ibstates with a non-empty basis-state list of size k adds exactly
\* one row to /ibstates/index, with n_bstates = k and a reference to a subgroup
\* that exists; the subgroup holds a state table of k rows and a coordinate
\* matrix of k rows.
C5_BasisStates ==
    [][(At("ibstates") /\ call.basis_states # <<>>) =>
          \/ IOFailed
          \/ LET k == Len(call.basis_states)
                 ref == Row(ibIndex', -1).group_ref
             IN /\ Len(ibIndex') = Len(ibIndex) + 1
                /\ KeepsRows(ibIndex, ibIndex')
                /\ Row(ibIndex', -1).n_bstates = k
                /\ ref # Null
                /\ ref \in DOMAIN ibGroups'
                /\ ref \notin DOMAIN ibGroups
                /\ DOMAIN ibGroups'[ref] = {"bstate_index", "bstate_pcoord"}
                /\ Len(ibGroups'[ref].bstate_index) = k
                /\ Len(ibGroups'[ref].bstate_pcoord) = k]_vars

\* two basis states appended: the subgroup "0" holds two rows and two coordinates
C5_Witness ==
    /\ Len(ibIndex) = 1
    /\ ibIndex[1].n_bstates = 2
    /\ ibIndex[1].group_ref = Str(0)
    /\ Len(ibGroups[Str(0)].bstate_pcoord) = 2

\* C6: after a blob of length L is appended the payload table is at least L
\* wide, and every payload row written so far, trimmed to the pickle_len of
\* its index row, is exactly the blob appended as that row, also after later
\* appends have widened the table.
C6_PickleRoundTrip ==
    /\ Len(binIndex) = Len(blobs)
    /\ Len(pickles.rows) = Len(blobs)
    /\ \A i \in 1..Len(blobs) :
          /\ pickles.width >= Len(blobs[i])
          /\ Len(pickles.rows[i]) = pickles.width
          /\ binIndex[i].pickle_len = Len(blobs[i])
          /\ SubSeq(pickles.rows[i], 1, binIndex[i].pickle_len) = blobs[i]

\* a blob of length 1, then one of length 2 that widens the table
C6_Witness ==
    /\ Len(blobs) = 2
    /\ Len(blobs[1]) = 1
    /\ Len(blobs[2]) = 2
    /\ pickles.width = 2

\* C7: the bin-topology store does not look up before it inserts: every
\* append_bin_mapper adds exactly one row to the index and one row to the
\* payload table, also when the same snapshot (same hash, same bytes) is
\* already stored.
C7_NoDeduplication ==
    [][At("bin_mapper") =>
          \/ IOFailed
          \/ /\ Len(binIndex') = Len(binIndex) + 1
             /\ Len(pickles'.rows) = Len(pickles.rows) + 1
             /\ KeepsRows(binIndex, binIndex')]_vars

\* the same snapshot stored twice: two equal index rows, two equal payload rows
C7_Witness ==
    /\ Len(binIndex) = 2
    /\ binIndex[1] = binIndex[2]
    /\ Len(pickles.rows) = 2
    /\ pickles.rows[1] = pickles.rows[2]

\* the sum, the least and the greatest of a sequence of numbers
Total(xs) ==
    LET T[k \in 0..Len(xs)] == IF k = 0 THEN 0 ELSE T[k - 1] + xs[k] IN T[Len(xs)]

Least(xs) == CHOOSE x \in {xs[i] : i \in 1..Len(xs)} : \A i \in 1..Len(xs) : x <= xs[i]

Greatest(xs) == CHOOSE x \in {xs[i] : i \in 1..Len(xs)} : \A i \in 1..Len(xs) : x >= xs[i]

WeightsOf(sims) == [i \in 1..Len(sims) |-> sims[i].weight]

BinSums(bins) == [b \in 1..Len(bins) |-> Total(WeightsOf(bins[b]))]

\* C8: for a non-empty replica list and a non-empty bin partition the summary
\* row written has n_particles = the number of replicas, norm = the sum of
\* their weights, min/max_seg_prob = the least and greatest replica weight,
\* min/max_bin_prob = the least and greatest per-bin sum of weights, cputime =
\* walltime = 0 and binhash = the hash of the first replica; weights 0.6 and
\* 0.4 in one bin give 2, 1.0, 0.4, 0.6, 1.0 and 1.0.
C8_SummaryAggregate ==
    (pc # 1 /\ outcome \in {"running", "ok"}) =>
        LET row == Row(summary, NIter - 1)
            ws == WeightsOf(call.next_iteration)
            sums == BinSums(call.binned_sims)
        IN /\ row.n_particles = Len(ws)
           /\ row.norm = Total(ws)
           /\ row.min_seg_prob = Least(ws)
           /\ row.max_seg_prob = Greatest(ws)
           /\ row.min_bin_prob = Least(sums)
           /\ row.max_bin_prob = Greatest(sums)
           /\ row.cputime = 0
           /\ row.walltime = 0
           /\ row.binhash = call.next_iteration[1].binner_hash
           /\ (ws = <<6, 4>> /\ Len(call.binned_sims) = 1) =>
                 /\ row.n_particles = 2 /\ row.norm = 10
                 /\ row.min_seg_prob = 4 /\ row.max_seg_prob = 6
                 /\ row.min_bin_prob = 10 /\ row.max_bin_prob = 10

\* iteration 1 with weights 0.6 and 0.4 in one bin, appended
C8_Witness ==
    /\ Succeeded
    /\ NIter = 1
    /\ WeightsOf(call.next_iteration) = <<6, 4>>
    /\ Len(call.binned_sims) = 1
    /\ summary[1].norm = 10
    /\ summary[1].min_bin_prob = 10

FreshStore ==
    /\ summary = <<ZeroSummaryRow>>
    /\ iterations = NoEntries
    /\ ibIndex = <<>> /\ ibGroups = NoEntries
    /\ tsIndex = <<>> /\ tsGroups = NoEntries
    /\ binIndex = <<>> /\ pickles.rows = <<>>

\* C9 as stated: creating the store over an existing store (here: one that
\* already holds appended data) fails with AlreadyExists and leaves the
\* existing contents unchanged.
C9_CreateRefusesExisting ==
    [][(op' = "create" /\ ~FreshStore) =>
          (outcome' = "AlreadyExists" /\ store' = store)]_vars

\* C9, amended: creating the store over an existing store does not fail; the
\* file is truncated, so that afterwards the store is a fresh one: a summary
\* table of one zero row, no iteration group, no state or bin-topology table,
\* and no open handle.
C9_CreateTruncates ==
    [][op' = "create" => (outcome' = "ok" /\ FreshStore' /\ ~fileOpen')]_vars

\* the store re-created over one that held two iteration groups
C9_Witness ==
    /\ op = "create"
    /\ outcome = "ok"
    /\ dropped = 2
    /\ FreshStore

\* create, append iteration 1, append iteration 2 with one basis state and no
\* target states, both appends completed
C10_Scenario ==
    /\ Succeeded
    /\ ncalls = 2
    /\ NIter = 2
    /\ Len(call.basis_states) = 1
    /\ call.target_states = <<>>
    /\ {iterations[nm] : nm \in DOMAIN iterations} = {1, 2}

RECURSIVE DecimalValue(_)
DecimalValue(d) ==
    IF d = <<>> THEN 0
    ELSE 10 * DecimalValue(SubSeq(d, 1, Len(d) - 1)) + d[Len(d)]

\* the groups under /iterations whose n_iter attribute is n
GroupsOf(groups, n) == {nm \in DOMAIN groups : groups[nm] = n}

C11_GroupState ==
    /\ \A nm \in DOMAIN iterations :
           /\ nm.prefix = "iter_"
           /\ Len(nm.digits) = WestIterPrec
           /\ DecimalValue(nm.digits) = iterations[nm]
    /\ \A n \in 0..MaxIter : Cardinality(GroupsOf(iterations, n)) <= 1
    /\ Succeeded => Cardinality(GroupsOf(iterations, NIter)) = 1

C11_GroupStep ==
    /\ At("iter_group") =>
           \/ IOFailed
           \/ /\ outcome' = "ok"
              /\ Cardinality(GroupsOf(iterations', NIter)) = 1
              /\ \A n \in 0..MaxIter :
                     n # NIter => GroupsOf(iterations', n) = GroupsOf(iterations, n)
              /\ GroupsOf(iterations, NIter) # {} => iterations' = iterations
    /\ (~At("iter_group") /\ op' = "append") => iterations' = iterations

\* C11: under /iterations there is exactly one group per distinct iteration
\* number appended, named iter_ followed by the number zero-padded to the
\* configured width, with n_iter equal to that number; the group step of an
\* append adds the group of its own number and no other, and when the number
\* repeats an earlier one it reuses that group, adds nothing and does not fail.
C11_OneGroupPerIteration == [](C11_GroupState) /\ [][C11_GroupStep]_vars

C11_Witness ==
    /\ Succeeded /\ clean /\ completed = 2
    /\ DOMAIN iterations = {IterGroupName(1, WestIterPrec)}
    /\ iterations[IterGroupName(1, WestIterPrec)] = 1

\* C12: the file is open only while an append is running its writers: in every
\* state in which no append is in progress (it has returned, or raised, also
\* partway through the writers) no handle on the file is open, and an append
\* with an empty replica list is never in a state with the file open.
C12_NoHandleBetweenCalls ==
    /\ fileOpen <=> pc > 0
    /\ pc > 0 => op = "append" /\ outcome = "running"
    /\ Rejected(call.next_iteration) => ~fileOpen /\ pc = 0

C12_Witness ==
    /\ op = "append" /\ pc = 0 /\ outcome = "IOError" /\ ~fileOpen
    /\ Len(tsIndex) = 1 /\ binIndex = <<>>

\* the append that has just returned wrote the state tables for an empty
\* basis-state list
EmptyBasisAppended == Succeeded /\ NIter # 0 /\ call.basis_states = <<>>

\* C13 as stated: an empty basis-state list creates no subgroup under
\* /ibstates and leaves the back-reference of its index row null, the row
\* recording n_bstates = 0.
C13_EmptyBasisNoSubgroup ==
    /\ EmptyBasisAppended => ibIndex[Len(ibIndex)].n_bstates = 0
    /\ \A k \in 1..Len(ibIndex) :
           ibIndex[k].n_bstates = 0 =>
               /\ ibIndex[k].group_ref = Null
               /\ Str(k - 1) \notin DOMAIN ibGroups

\* C13, amended: an empty basis-state list records n_bstates = 0 in its index
\* row, and, unlike an empty target-state list, it still creates the subgroup
\* named by the row's ordinal, which holds no table, and the row's
\* back-reference points at that subgroup.
C13_EmptyBasisEmptySubgroup ==
    /\ EmptyBasisAppended => ibIndex[Len(ibIndex)].n_bstates = 0
    /\ \A k \in 1..Len(ibIndex) :
           ibIndex[k].n_bstates = 0 =>
               /\ ibIndex[k].group_ref # Null
               /\ ibIndex[k].group_ref = Str(k - 1)
               /\ Str(k - 1) \in DOMAIN ibGroups
               /\ ibGroups[Str(k - 1)] = NoEntries

C13_Witness ==
    /\ EmptyBasisAppended /\ call.target_states = <<>>
    /\ Len(ibIndex) = 1 /\ ibIndex[1].n_bstates = 0
    /\ ibGroups[Str(0)] = NoEntries /\ tsGroups = NoEntries

\* the appends since the creation all returned, each for an iteration number of
\* its own, and the running append brings a number not appended before
DistinctIterations ==
    /\ clean
    /\ GroupsOf(iterations, NIter) = {}
    /\ Cardinality(DOMAIN iterations \ GroupsOf(iterations, 0)) = completed

\* C14: over appends with pairwise distinct iteration numbers, 0 included, the
\* summary write of the append for iteration m leaves every row unchanged that
\* an earlier append wrote for another iteration n, the n-th row of the table,
\* and a resize keeps all the rows the table had.
C14_SummaryRowsNeverMutated ==
    [][(At("summary") /\ DistinctIterations) =>
          /\ Len(summary') # Len(summary) => KeepsRows(summary, summary')
          /\ \A nm \in DOMAIN iterations :
                 iterations[nm] >= 1 =>
                     summary'[iterations[nm]] = summary[iterations[nm]]]_vars

\* every row of the index is null or refers to the existing subgroup named by
\* the row's ordinal, and every subgroup is named by the ordinal of a row
ValidReferences(index, groups) ==
    /\ \A k \in 1..Len(index) :
           \/ index[k].group_ref = Null
           \/ /\ index[k].group_ref = Str(k - 1)
              /\ Str(k - 1) \in DOMAIN groups
    /\ \A nm \in DOMAIN groups : \E k \in 1..Len(index) : nm = Str(k - 1)

\* C15: in every reachable state each row k of /ibstates/index and of
\* /tstates/index has a back-reference that is null or points at the existing
\* subgroup named str(k), and a subgroup named str(k) exists only if row k does.
C15_BackReferencesValid ==
    /\ ValidReferences(ibIndex, ibGroups)
    /\ ValidReferences(tsIndex, tsGroups)

C15_Witness ==
    /\ Len(ibIndex) = 2 /\ DOMAIN ibGroups = {Str(0), Str(1)}
    /\ Len(tsIndex) = 2 /\ DOMAIN tsGroups = {Str(1)}
    /\ tsIndex[1].group_ref = Null /\ tsIndex[2].group_ref = Str(1)

\* no growable table is shorter, and the payload table no narrower, after the
\* step than before it
TablesGrow ==
    /\ Len(summary') >= Len(summary)
    /\ Len(ibIndex') >= Len(ibIndex)
    /\ Len(tsIndex') >= Len(tsIndex)
    /\ Len(binIndex') >= Len(binIndex)
    /\ Len(pickles'.rows) >= Len(pickles.rows)
    /\ pickles'.width >= pickles.width

\* the summary table has a row for every iteration number stored so far: the
\* numbers of the iteration groups, and the number of the running append once
\* its summary row is written
SummaryCoversIterations ==
    /\ \A nm \in DOMAIN iterations : Len(summary) >= iterations[nm]
    /\ pc > 1 => Len(summary) >= NIter

\* C16 as stated: across any sequence of create and append calls no growable
\* table gets shorter and the payload table no narrower, and the summary table
\* is at least as long as the highest iteration number appended.
C16_TablesNeverShrink == [](SummaryCoversIterations) /\ [][TablesGrow]_vars

\* C16, amended: across the append calls that follow a creation no growable
\* table gets shorter and the payload table no narrower, and the summary table
\* is at least as long as the highest iteration number appended since; a
\* creation cuts the summary table to one row and removes the other tables.
C16_TablesGrowSinceCreation ==
    /\ [](SummaryCoversIterations)
    /\ [][/\ op' = "append" => TablesGrow
          /\ op' = "create" =>
                 /\ Len(summary') = 1
                 /\ ibIndex' = <<>> /\ tsIndex' = <<>> /\ binIndex' = <<>>
                 /\ pickles'.rows = <<>> /\ pickles'.width = 0]_vars

C16_Witness ==
    /\ Succeeded /\ clean /\ completed = 2
    /\ Len(summary) = 3 /\ Len(binIndex) = 2
    /\ Len(pickles.rows) = 2 /\ pickles.width = 2 /\ Len(blobs[1]) = 1

\* the step is a summary write that stored its row
SummaryWritten == At("summary") /\ pc' = pc + 1

\* the row of the table holds the aggregates of the running append
HoldsCallRow(row) ==
    /\ row.n_particles = Len(call.next_iteration)
    /\ row.norm = Total(WeightsOf(call.next_iteration))
    /\ row.binhash = call.next_iteration[1].binner_hash

\* C17 as stated: the summary write for iteration n leaves the table with at
\* least n + 1 rows, growing it if it is shorter, and overwrites row n - 1.
C17_GrowsToNextRow ==
    [][SummaryWritten =>
          /\ Len(summary') >= NIter + 1
          /\ NIter >= 1 => HoldsCallRow(summary'[NIter])]_vars

\* C17, amended: the summary write for iteration n resizes the table to n + 1
\* rows only if it has fewer than n rows and leaves its length alone otherwise,
\* so that the table has at least n rows afterwards (exactly n when it had n),
\* the old rows kept and the new ones zero; then it overwrites row n - 1, which
\* for n = 0 is the last row of the table.
C17_GrowsWhenShorterThanN ==
    [][SummaryWritten =>
          /\ Len(summary) < NIter => Len(summary') = NIter + 1
          /\ Len(summary) >= NIter => Len(summary') = Len(summary)
          /\ Len(summary') >= NIter
          /\ HoldsCallRow(summary'[IF NIter = 0 THEN Len(summary') ELSE NIter])
          /\ \A i \in 1..Len(summary') :
                 i # (IF NIter = 0 THEN Len(summary') ELSE NIter) =>
                     summary'[i] = IF i <= Len(summary) THEN summary[i]
                                   ELSE ZeroSummaryRow]_vars

C17_Witness ==
    /\ pc = 2 /\ ncalls = 1 /\ NIter = 1 /\ ibIndex = <<>>
    /\ Len(summary) = 1 /\ HoldsCallRow(summary[1])

\* C18: an append with a non-empty replica list and an empty bin partition
\* fails in its summary writer with the error of an empty iteration (a
\* ValueError), and nothing is written: the summary table, the three state
\* and bin-topology tables and the iteration groups are as before the call.
C18_EmptyPartitionFails ==
    [][(At("summary") /\ call.next_iteration # <<>> /\ call.binned_sims = <<>>) =>
          /\ pc = 1 /\ pc' = 0 /\ ~fileOpen'
          /\ outcome' \in {"ValueError", "IOError"}
          /\ store' = store]_vars

C18_Witness ==
    /\ op = "append" /\ pc = 0 /\ outcome = "ValueError"
    /\ call.next_iteration # <<>> /\ call.binned_sims = <<>>
    /\ Len(ibIndex) = 1 /\ Cardinality(DOMAIN iterations) = 1

\* the number of writes of the running append that are done
WritesDone == pc - 1

StateRows(n) ==
    /\ Len(ibIndex) = n
    /\ Len(tsIndex) = n
    /\ Len(binIndex) = n
    /\ Len(pickles.rows) = n

====
